---- MODULE Spec2Model ----
(***************************************************************************)
(* Model of twenty_percent/training_guide.ipynb: the install commands of   *)
(* section 2 and the script cpu_trainer.py of section 3 (tokenize_function,*)
(* custom_data_collator and the top-level call sequence).                  *)
(*                                                                         *)
(* Python values are modelled as records:                                  *)
(*   a tensor  [kind |-> "tensor", shape |-> <<..>>, data |-> <<..>>]      *)
(*   a list    [kind |-> "list",   shape |-> <<>>,   data |-> <<..>>]      *)
(*   a feature [isdict |-> BOOLEAN, items |-> key -> value]                *)
(* A dict iterates its keys in the order of KeyOrder.                      *)
(***************************************************************************)
EXTENDS Integers, Sequences, FiniteSets, TLC

VARIABLES
    pc,            \* the statement about to run ("collate", "pip", a label of Program, ...)
    features,      \* argument of the latest custom_data_collator call
    result,        \* its outcome: batch, printed lines, exception
    tokenizer,     \* the global tokenizer: loaded, has a pad token, its id
    dataset,       \* rows of dataset / tokenized_dataset
    format,        \* output format of the dataset: "python" or "torch"
    modelDevice,   \* device of model ("none" before it is loaded)
    batchDevice,   \* device of the latest batch handed to the model
    input_ids,     \* input_ids of the prompt
    inputDevice,   \* device of input_ids
    epoch,         \* epochs completed by trainer.train()
    remaining,     \* row indices the sampler has not yet served in this epoch
    checkpoints,   \* checkpoints written by save_strategy="epoch"
    stdout,        \* lines printed by the top level of the script
    output,        \* output[0] of model.generate
    generated,     \* generated_text, as token ids
    saved,         \* what save_pretrained has written to OUTPUT_DIR
    log,           \* statements of the script completed so far, in order
    raised,        \* exception that ended the run ("none": none yet)
    envFault,      \* the exception came from the environment (no network, no memory)
    cudaAvailable, \* an accelerator is visible to torch
    argFields,     \* keyword arguments TrainingArguments.__init__ accepts
    index,         \* latest version of each package on the package index
    installs       \* what each run of the install commands installed

collateVars == <<features, result>>
dataVars == <<tokenizer, dataset, format>>
devVars == <<modelDevice, batchDevice, inputDevice>>
trainVars == <<epoch, remaining, checkpoints>>
ioVars == <<stdout, input_ids, output, generated, saved>>
envVars == <<cudaAvailable, argFields>>
errVars == <<raised, envFault>>
pipVars == <<index, installs>>

vars == <<pc, collateVars, dataVars, devVars, trainVars, ioVars, envVars,
          errVars, pipVars, log>>

\* ------------------------------------------------------------------ bounds
MaxFeatures == 2     \* features in a collator call of the harness
MaxShape == 2        \* length of a tensor of the harness
Fills == {0, 1}      \* contents of a tensor of the harness
MaxTextLen == 34     \* tokens in a text given to tokenize_function
MaxRows == 2         \* rows of the dataset of the tokenize harness
MaxVersion == 2      \* versions of a package the index publishes
MaxInstalls == 2     \* runs of the install commands

\* ------------------------------------------------------------------ values
KeyOrder == <<"text", "input_ids", "attention_mask", "labels">>

Tensor1(d) == [kind |-> "tensor", shape |-> <<Len(d)>>, data |-> d]

PyList(d) == [kind |-> "list", shape |-> <<>>, data |-> d]

Dict(items) == [isdict |-> TRUE, items |-> items]

EmptyDict == [k \in {} |-> 0]

NotDict == [isdict |-> FALSE, items |-> EmptyDict]

IsTensor(v) == v.kind = "tensor"

\* ------------------------------------------------------------- torch.stack
\* torch.stack(elements): TypeError when an element is not a tensor,
\* RuntimeError when the list is empty or the shapes differ, else the
\* tensor whose leading dimension indexes the elements in list order.
StackResult(elements) ==
    [exc |-> "none",
     val |-> [kind |-> "tensor",
              shape |-> <<Len(elements)>> \o elements[1].shape,
              data |-> [i \in 1..Len(elements) |-> elements[i].data]]]

TorchStack(elements) ==
    IF \E i \in 1..Len(elements) : ~IsTensor(elements[i])
    THEN [exc |-> "TypeError", val |-> PyList(<<>>)]
    ELSE IF Len(elements) = 0
            \/ \E i \in 1..Len(elements) : elements[i].shape # elements[1].shape
    THEN [exc |-> "RuntimeError", val |-> PyList(<<>>)]
    ELSE StackResult(elements)

\* ---------------------------------------------------- custom_data_collator
\* keys of a dict, in iteration order
RECURSIVE KeysFrom(_, _)
KeysFrom(d, i) ==
    IF i > Len(KeyOrder) THEN <<>>
    ELSE (IF KeyOrder[i] \in DOMAIN d.items THEN <<KeyOrder[i]>> ELSE <<>>)
         \o KeysFrom(d, i + 1)

DictKeys(d) == KeysFrom(d, 1)

\* ElementsFrom leaving out the features that lack the key
RECURSIVE ElementsFromSkipMissing(_, _, _)
ElementsFromSkipMissing(fs, key, i) ==
    IF i > Len(fs) THEN [exc |-> "none", val |-> <<>>]
    ELSE IF ~fs[i].isdict THEN [exc |-> "TypeError", val |-> <<>>]
    ELSE LET rest == ElementsFromSkipMissing(fs, key, i + 1)
         IN  IF rest.exc # "none" THEN rest
             ELSE IF key \notin DOMAIN fs[i].items THEN rest
             ELSE [exc |-> "none", val |-> <<fs[i].items[key]>> \o rest.val]

\* [f[key] for f in features]: the first feature that fails decides the
\* exception (TypeError: not subscriptable by a string, KeyError: no key).
RECURSIVE ElementsFrom(_, _, _)
ElementsFrom(fs, key, i) ==
    IF i > Len(fs) THEN [exc |-> "none", val |-> <<>>]
    ELSE IF ~fs[i].isdict THEN [exc |-> "TypeError", val |-> <<>>]
    ELSE IF key \notin DOMAIN fs[i].items THEN [exc |-> "KeyError", val |-> <<>>]
    ELSE LET rest == ElementsFrom(fs, key, i + 1)
         IN  IF rest.exc # "none" THEN rest
             ELSE [exc |-> "none", val |-> <<fs[i].items[key]>> \o rest.val]

\* ElementsForStack collecting the values from the last feature to the first
ElementsForStackReversed(fs, key) ==
    LET r == ElementsFrom(fs, key, 1)
    IN  [r EXCEPT !.val = [i \in 1..Len(r.val) |-> r.val[Len(r.val) + 1 - i]]]

ElementsForStack(fs, key) == ElementsFrom(fs, key, 1)

\* the prints of lines 147-157 for one key
ElementPrints(elements) ==
    << <<"type_elements_for_stack">> >>
    \o (IF Len(elements) = 0 THEN <<>>
        ELSE << <<"type_element0">> >>
             \o (IF elements[1].kind = "list"
                 THEN << <<"type_element0_0">>, <<"value_element0">> >>
                 ELSE IF elements[1].kind = "tensor"
                 THEN << <<"shape_element0">> >>
                 ELSE << <<"value_element0">> >>))

\* StackStep with "except Exception" and no re-raise
StackStepCatchAll(st, key, elements) ==
    LET r == TorchStack(elements)
    IN  IF r.exc = "none"
        THEN [st EXCEPT !.batch = [k \in DOMAIN st.batch \cup {key} |->
                                      IF k = key THEN r.val ELSE st.batch[k]],
                        !.out = @ \o << <<"stacked", key>> >>]
        ELSE [st EXCEPT !.out = @ \o << <<"error_text", key>> >>,
                        !.stackexc = @ \cup {r.exc}]

\* StackStep printing every exception of torch.stack before it goes on
StackStepPrintAndRaise(st, key, elements) ==
    LET r == TorchStack(elements)
    IN  IF r.exc = "none"
        THEN [st EXCEPT !.batch = [k \in DOMAIN st.batch \cup {key} |->
                                      IF k = key THEN r.val ELSE st.batch[k]],
                        !.out = @ \o << <<"stacked", key>> >>]
        ELSE IF r.exc = "TypeError"
        THEN [st EXCEPT !.out = @ \o << <<"error_text", key>> >>,
                        !.stackexc = @ \cup {r.exc}]
        ELSE [st EXCEPT !.out = @ \o << <<"error_text", key>> >>,
                        !.exc = r.exc,
                        !.stackexc = @ \cup {r.exc}]

\* StackStep with the except clause re-raising
StackStepReraise(st, key, elements) ==
    LET r == TorchStack(elements)
    IN  IF r.exc = "none"
        THEN [st EXCEPT !.batch = [k \in DOMAIN st.batch \cup {key} |->
                                      IF k = key THEN r.val ELSE st.batch[k]],
                        !.out = @ \o << <<"stacked", key>> >>]
        ELSE IF r.exc = "TypeError"
        THEN [st EXCEPT !.out = @ \o << <<"error_text", key>> >>,
                        !.exc = r.exc,
                        !.stackexc = @ \cup {r.exc}]
        ELSE [st EXCEPT !.exc = r.exc,
                        !.stackexc = @ \cup {r.exc}]

\* the try/except of lines 159-163: what one key does to the state
StackStep(st, key, elements) ==
    LET r == TorchStack(elements)
    IN  IF r.exc = "none"
        THEN [st EXCEPT !.batch = [k \in DOMAIN st.batch \cup {key} |->
                                      IF k = key THEN r.val ELSE st.batch[k]],
                        !.out = @ \o << <<"stacked", key>> >>]
        ELSE IF r.exc = "TypeError"
        THEN [st EXCEPT !.out = @ \o << <<"error_text", key>> >>,
                        !.stackexc = @ \cup {r.exc}]
        ELSE [st EXCEPT !.exc = r.exc,
                        !.stackexc = @ \cup {r.exc}]

\* the body of the loop "for key in features[0].keys()", lines 142-163
RECURSIVE CollateKeys(_, _, _)
CollateKeys(fs, ks, st) ==
    IF ks = <<>> \/ st.exc # "none" THEN st
    ELSE LET key == Head(ks)
             st1 == [st EXCEPT !.out = @ \o << <<"key", key>>, <<"type_value0">> >>]
             el  == ElementsForStack(fs, key)
         IN  IF el.exc # "none"
             THEN [st1 EXCEPT !.exc = el.exc]
             ELSE CollateKeys(fs, Tail(ks),
                     StackStep([st1 EXCEPT !.out = @ \o ElementPrints(el.val)],
                               key, el.val))

\* custom_data_collator(features), lines 132-168.  exc = "none": the call
\* returned batch; otherwise it raised exc and returned nothing.  out is what
\* it printed, a tuple per print: <<"error_text", key>> is the print of the
\* except clause, whose text ends with the exception's message.  stackexc
\* records the exceptions the torch.stack calls raised.
Start == [batch |-> EmptyDict, out |-> << <<"begin">>, <<"type_features">> >>,
          exc |-> "none", stackexc |-> {}]

custom_data_collator(fs) ==
    LET body ==
            IF Len(fs) = 0 THEN Start
            ELSE LET st == [Start EXCEPT !.out = @ \o << <<"len_features">>, <<"type_feature0">> >>]
                 IN  IF fs[1].isdict
                     THEN CollateKeys(fs, DictKeys(fs[1]), st)
                     ELSE [st EXCEPT !.out = @ \o << <<"not_a_dictionary">> >>]
    IN  IF body.exc = "none"
        THEN [body EXCEPT !.out = @ \o << <<"end">> >>]
        ELSE body


\* ---------------------------------------------------------------- tokenizer
max_length == 32
eos_token == 50256
max_new_tokens == 10
num_train_epochs == 3
per_device_train_batch_size == 2

\* A text is modelled by the token ids the tokenizer's encoder gives it.
Text(n) == [i \in 1..n |-> i]

PyStr(d) == [kind |-> "str", shape |-> <<>>, data |-> d]

\* return_tensors="pt": a tensor of shape (1, len)
Tensor2(d) == [kind |-> "tensor", shape |-> <<1, Len(d)>>, data |-> <<d>>]

\* Truncate with truncation off
TruncateOff(ids, maxlen, truncation) == ids

Truncate(ids, maxlen, truncation) ==
    IF truncation /\ Len(ids) > maxlen THEN SubSeq(ids, 1, maxlen) ELSE ids

PadTo(ids, maxlen, fill) ==
    IF Len(ids) >= maxlen THEN ids
    ELSE ids \o [i \in 1..(maxlen - Len(ids)) |-> fill]

\* tokenizer(text, max_length=maxlen, truncation=.., padding=.., return_tensors="pt");
\* padding is "max_length" or "none".  Padding without a pad token is a ValueError.
TokenizerCall(tok, text, maxlen, truncation, padding) ==
    LET ids == Truncate(text, maxlen, truncation)
    IN  IF padding = "max_length" /\ ~tok.haspad
        THEN [exc |-> "ValueError", val |-> EmptyDict]
        ELSE LET n == Len(ids)
                 padded == IF padding = "max_length" THEN PadTo(ids, maxlen, tok.pad)
                           ELSE ids
                 mask == [i \in 1..Len(padded) |-> IF i <= n THEN 1 ELSE 0]
             IN  [exc |-> "none",
                  val |-> [k \in {"input_ids", "attention_mask"} |->
                              IF k = "input_ids" THEN Tensor2(padded)
                              ELSE Tensor2(mask)]]

\* tensor.squeeze(0): drops the first dimension when its size is 1
Squeeze0(t) ==
    IF Len(t.shape) > 0 /\ t.shape[1] = 1
    THEN [t EXCEPT !.shape = Tail(t.shape), !.data = t.data[1]]
    ELSE t

\* tokenize_function(example), lines 97-107
tokenize_function(tok, example) ==
    LET r == TokenizerCall(tok, example["text"].data, max_length, TRUE, "max_length")
    IN  IF r.exc # "none" THEN r
        ELSE LET tokenized_inputs ==
                     [k \in DOMAIN r.val \cup {"labels"} |->
                         IF k = "labels" THEN r.val["input_ids"] ELSE r.val[k]]
             IN  [exc |-> "none",
                  val |-> [k \in DOMAIN tokenized_inputs |->
                              Squeeze0(tokenized_inputs[k])]]

\* Dataset.from_list(mini_data): one row per text
FromList(texts) == [i \in 1..Len(texts) |-> [k \in {"text"} |-> PyStr(texts[i])]]

\* The dataset stores a returned tensor as a plain list of numbers.
ToStored(v) == IF v.kind = "tensor" THEN PyList(v.data) ELSE v

\* dataset.map(tokenize_function): each row gains the returned columns
MapRow(tok, row) ==
    LET r == tokenize_function(tok, row)
    IN  IF r.exc # "none" THEN r
        ELSE [exc |-> "none",
              val |-> [k \in DOMAIN row \cup DOMAIN r.val |->
                          IF k \in DOMAIN r.val THEN ToStored(r.val[k]) ELSE row[k]]]

DatasetMap(tok, rows) ==
    IF \E i \in 1..Len(rows) : MapRow(tok, rows[i]).exc # "none"
    THEN [exc |-> "ValueError", val |-> rows]
    ELSE [exc |-> "none", val |-> [i \in 1..Len(rows) |-> MapRow(tok, rows[i]).val]]

\* tokenized_dataset.remove_columns(['text'])
RemoveColumns(rows, cols) ==
    [i \in 1..Len(rows) |-> [k \in DOMAIN rows[i] \ cols |-> rows[i][k]]]

\* reading a row under set_format("torch"): lists of numbers come back as tensors
Formatted(fmt, v) ==
    IF fmt = "torch" /\ v.kind = "list" THEN Tensor1(v.data) ELSE v

GetRow(fmt, rows, i) == Dict([k \in DOMAIN rows[i] |-> Formatted(fmt, rows[i][k])])

\* ------------------------------------------------------------------- script
\* Program with the save statements moved before the training
ProgramSaveFirst ==
    <<"load_tokenizer", "set_pad_token", "from_list", "map", "set_format",
      "remove_columns", "training_args", "load_model", "model_to_cpu", "trainer",
      "save_model", "save_tokenizer", "train", "print_complete", "eval",
      "encode_prompt", "generate", "decode", "print_prompt", "print_generated">>

\* The top-level statements of cpu_trainer.py, in source order.
Program ==
    <<"load_tokenizer", "set_pad_token", "from_list", "map", "set_format",
      "remove_columns", "training_args", "load_model", "model_to_cpu", "trainer",
      "train", "print_complete", "eval", "encode_prompt", "generate", "decode",
      "print_prompt", "print_generated", "save_model", "save_tokenizer">>

Succ(l) ==
    IF \E i \in 1..(Len(Program) - 1) : Program[i] = l
    THEN Program[(CHOOSE i \in 1..(Len(Program) - 1) : Program[i] = l) + 1]
    ELSE "done"

\* keyword arguments of the TrainingArguments(...) call, lines 116-126
TrainingArgsKw ==
    {"output_dir", "num_train_epochs", "per_device_train_batch_size",
     "logging_steps", "report_to", "save_strategy", "device", "no_cuda"}

\* no_cuda left at its default
no_cuda_default == FALSE

no_cuda == TRUE

\* TrainingArguments is a dataclass: its __init__ takes its fields and nothing
\* else.  "device" is a read-only property of the class, not a field.
DataclassFields == TrainingArgsKw \ {"device"}

\* training_args.device: the CPU when no_cuda, else an accelerator if one is visible
ArgsDevice(cuda) == IF no_cuda THEN "cpu" ELSE IF cuda THEN "cuda" ELSE "cpu"

\* token ids of prompt = "The quick brown"
Prompt == Text(3)

\* the encodings of the sentences of mini_data: the encoder is the framework's,
\* so each sentence may have any of the token counts its words allow
MiniTexts == {Text(n) : n \in 4..7}

MiniData == [1..4 -> MiniTexts]

\* model.generate(ids, max_new_tokens=10, do_sample=True): the prompt,
\* n sampled tokens, and eos if sampling ended on it
GenerateOutput(ids, n, ended) ==
    ids \o [i \in 1..n |-> 1] \o (IF ended THEN <<eos_token>> ELSE <<>>)

\* tokenizer.decode(ids, skip_special_tokens=True), as the tokens of the text
Decode(ids, skip_special_tokens) ==
    SelectSeq(ids, LAMBDA t : ~(skip_special_tokens /\ t = eos_token))

\* batches the sampler can serve next: per_device_train_batch_size distinct rows
\* not yet served in this epoch (fewer when fewer remain), in any order
BatchesOf(rem) ==
    LET k == IF Cardinality(rem) < per_device_train_batch_size
             THEN Cardinality(rem) ELSE per_device_train_batch_size
    IN  {b \in [1..k -> rem] : \A i, j \in 1..k : i # j => b[i] # b[j]}

Range(s) == {s[i] : i \in DOMAIN s}

\* ------------------------------------------------------------- installation
Packages == {"torch", "torchvision", "torchaudio", "transformers", "datasets"}

\* the requirement each pip install command gives for a package, lines 52-59:
\* none names a version (transformers is the head of the development branch)
Requirements == [p \in Packages |-> [pinned |-> FALSE, version |-> 0]]

\* what pip installs for a package given the index
Resolve(req, latest) == IF req.pinned THEN req.version ELSE latest

\* ------------------------------------------------------------ initial states
HarnessKeys == {"input_ids", "labels"}

Tensors == {Tensor1([i \in 1..n |-> x]) : n \in 1..MaxShape, x \in Fills}

Values == Tensors \cup {PyList(<<0>>)}

Dicts == UNION {[S -> Values] : S \in SUBSET HarnessKeys}

Features == {Dict(d) : d \in Dicts} \cup {NotDict}

FeatureLists == UNION {[1..n -> Features] : n \in 0..MaxFeatures}

Texts == {Text(n) : n \in 0..MaxTextLen}

TextLists == UNION {[1..n -> Texts] : n \in 1..MaxRows}

NoResult == [batch |-> EmptyDict, out |-> <<>>, exc |-> "none", stackexc |-> {}]

NoTokenizer == [loaded |-> FALSE, haspad |-> FALSE, pad |-> 0]

\* what no entry point has touched before it starts
Fresh ==
    /\ result = NoResult
    /\ format = "python"
    /\ modelDevice = "none"
    /\ batchDevice = "none"
    /\ inputDevice = "none"
    /\ epoch = 0
    /\ remaining = {}
    /\ checkpoints = {}
    /\ stdout = <<>>
    /\ input_ids = PyList(<<>>)
    /\ output = <<>>
    /\ generated = <<>>
    /\ saved = {}
    /\ log = <<>>
    /\ raised = "none"
    /\ envFault = FALSE
    /\ index = [p \in Packages |-> 1]
    /\ installs = <<>>

\* a call of custom_data_collator on any list of features
InitCollate ==
    /\ pc = "collate"
    /\ features \in FeatureLists
    /\ tokenizer = NoTokenizer
    /\ dataset = <<>>
    /\ cudaAvailable = FALSE
    /\ argFields = DataclassFields
    /\ Fresh

\* lines 110-113 on a dataset of any texts, the tokenizer set up as by lines 94-95
InitTokenize ==
    /\ pc = "h_map"
    /\ features = <<>>
    /\ tokenizer = [loaded |-> TRUE, haspad |-> TRUE, pad |-> eos_token]
    /\ dataset \in {FromList(t) : t \in TextLists}
    /\ cudaAvailable = FALSE
    /\ argFields = DataclassFields
    /\ Fresh

\* a run of cpu_trainer.py.  Whether an accelerator is visible is the machine's.
\* The install commands fix no version of the framework, so the signature of
\* TrainingArguments is the environment's too: that of the dataclass as
\* released, or one that also takes "device".
InitScript ==
    /\ pc = Program[1]
    /\ features = <<>>
    /\ tokenizer = NoTokenizer
    /\ dataset = <<>>
    /\ cudaAvailable \in BOOLEAN
    /\ argFields \in {DataclassFields, DataclassFields \cup {"device"}}
    /\ Fresh

\* the install commands of section 2, run now and again
InitInstall ==
    /\ pc = "pip"
    /\ features = <<>>
    /\ tokenizer = NoTokenizer
    /\ dataset = <<>>
    /\ cudaAvailable = FALSE
    /\ argFields = DataclassFields
    /\ Fresh

Init == InitCollate \/ InitTokenize \/ InitScript \/ InitInstall

\* ------------------------------------------------------------------ actions
\* custom_data_collator called on the harness's features
Collate ==
    /\ pc = "collate"
    /\ result' = custom_data_collator(features)
    /\ pc' = "collated"
    /\ UNCHANGED <<features, dataVars, devVars, trainVars, ioVars, envVars,
                   errVars, pipVars, log>>

\* lines 110-113 on the harness's dataset, then one batch of all its rows
HarnessMap ==
    /\ pc = "h_map"
    /\ dataset' = DatasetMap(tokenizer, dataset).val
    /\ pc' = "h_set_format"
    /\ UNCHANGED <<collateVars, tokenizer, format, devVars, trainVars, ioVars,
                   envVars, errVars, pipVars, log>>

HarnessSetFormat ==
    /\ pc = "h_set_format"
    /\ format' = "torch"
    /\ pc' = "h_remove_columns"
    /\ UNCHANGED <<collateVars, tokenizer, dataset, devVars, trainVars, ioVars,
                   envVars, errVars, pipVars, log>>

HarnessRemoveColumns ==
    /\ pc = "h_remove_columns"
    /\ dataset' = RemoveColumns(dataset, {"text"})
    /\ pc' = "h_collate"
    /\ UNCHANGED <<collateVars, tokenizer, format, devVars, trainVars, ioVars,
                   envVars, errVars, pipVars, log>>

HarnessCollate ==
    /\ pc = "h_collate"
    /\ features' = [i \in 1..Len(dataset) |-> GetRow(format, dataset, i)]
    /\ result' = custom_data_collator(features')
    /\ pc' = "h_collated"
    /\ UNCHANGED <<dataVars, devVars, trainVars, ioVars, envVars, errVars,
                   pipVars, log>>

\* a statement of the script returned: on to the next one
Done(l) ==
    /\ pc' = Succ(l)
    /\ log' = Append(log, l)
    /\ UNCHANGED errVars

\* a statement of the script raised: nothing in the script catches it
Raise(e, env) ==
    /\ pc' = "raised"
    /\ raised' = e
    /\ envFault' = env
    /\ UNCHANGED log

\* line 94
LoadTokenizer ==
    /\ pc = "load_tokenizer"
    /\ \/ /\ tokenizer' = [loaded |-> TRUE, haspad |-> FALSE, pad |-> 0]
          /\ Done("load_tokenizer")
       \/ /\ Raise("OSError", TRUE)
          /\ UNCHANGED tokenizer
    /\ UNCHANGED <<collateVars, dataset, format, devVars, trainVars, ioVars,
                   envVars, pipVars>>

\* line 95
SetPadToken ==
    /\ pc = "set_pad_token"
    /\ tokenizer' = [tokenizer EXCEPT !.haspad = TRUE, !.pad = eos_token]
    /\ Done("set_pad_token")
    /\ UNCHANGED <<collateVars, dataset, format, devVars, trainVars, ioVars,
                   envVars, pipVars>>

\* line 110
FromListStmt ==
    /\ pc = "from_list"
    /\ \E t \in MiniData : dataset' = FromList(t)
    /\ Done("from_list")
    /\ UNCHANGED <<collateVars, tokenizer, format, devVars, trainVars, ioVars,
                   envVars, pipVars>>

\* line 111
MapStmt ==
    /\ pc = "map"
    /\ LET r == DatasetMap(tokenizer, dataset)
       IN  IF r.exc = "none"
           THEN dataset' = r.val /\ Done("map")
           ELSE Raise(r.exc, FALSE) /\ UNCHANGED dataset
    /\ UNCHANGED <<collateVars, tokenizer, format, devVars, trainVars, ioVars,
                   envVars, pipVars>>

\* line 112
SetFormatStmt ==
    /\ pc = "set_format"
    /\ format' = "torch"
    /\ Done("set_format")
    /\ UNCHANGED <<collateVars, tokenizer, dataset, devVars, trainVars, ioVars,
                   envVars, pipVars>>

\* line 113
RemoveColumnsStmt ==
    /\ pc = "remove_columns"
    /\ dataset' = RemoveColumns(dataset, {"text"})
    /\ Done("remove_columns")
    /\ UNCHANGED <<collateVars, tokenizer, format, devVars, trainVars, ioVars,
                   envVars, pipVars>>

\* lines 116-126: a keyword the constructor does not take is a TypeError
TrainingArgsStmt ==
    /\ pc = "training_args"
    /\ IF TrainingArgsKw \subseteq argFields
       THEN Done("training_args")
       ELSE Raise("TypeError", FALSE)
    /\ UNCHANGED <<collateVars, dataVars, devVars, trainVars, ioVars, envVars,
                   pipVars>>

\* line 129: from_pretrained builds the model on the CPU
LoadModel ==
    /\ pc = "load_model"
    /\ \/ /\ modelDevice' = "cpu"
          /\ Done("load_model")
       \/ /\ Raise("OSError", TRUE)
          /\ UNCHANGED modelDevice
    /\ UNCHANGED <<collateVars, dataVars, batchDevice, inputDevice, trainVars,
                   ioVars, envVars, pipVars>>

\* line 130
ModelToCpu ==
    /\ pc = "model_to_cpu"
    /\ modelDevice' = "cpu"
    /\ Done("model_to_cpu")
    /\ UNCHANGED <<collateVars, dataVars, batchDevice, inputDevice, trainVars,
                   ioVars, envVars, pipVars>>

\* lines 171-176: the Trainer places the model on training_args.device
TrainerStmt ==
    /\ pc = "trainer"
    /\ modelDevice' = ArgsDevice(cudaAvailable)
    /\ epoch' = 0
    /\ remaining' = 1..Len(dataset)
    /\ Done("trainer")
    /\ UNCHANGED <<collateVars, dataVars, batchDevice, inputDevice, checkpoints,
                   ioVars, envVars, pipVars>>

\* line 179, one training step: the sampler serves a batch, the collator
\* collates it, the Trainer moves it to training_args.device and the model
\* runs on it.  An exception of the collator or of the model ends train().
TrainStep ==
    /\ pc = "train"
    /\ epoch < num_train_epochs
    /\ remaining # {}
    /\ \/ \E b \in BatchesOf(remaining) :
             LET fs == [i \in 1..Len(b) |-> GetRow(format, dataset, b[i])]
                 r  == custom_data_collator(fs)
                 dev == ArgsDevice(cudaAvailable)
             IN  /\ features' = fs
                 /\ result' = r
                 /\ IF r.exc # "none"
                    THEN Raise(r.exc, FALSE) /\ UNCHANGED <<batchDevice, remaining>>
                    ELSE IF "input_ids" \notin DOMAIN r.batch
                    THEN Raise("ValueError", FALSE) /\ UNCHANGED <<batchDevice, remaining>>
                    ELSE IF modelDevice # dev
                    THEN Raise("RuntimeError", FALSE)
                         /\ batchDevice' = dev /\ UNCHANGED remaining
                    ELSE /\ batchDevice' = dev
                         /\ remaining' = remaining \ Range(b)
                         /\ UNCHANGED <<pc, log, errVars>>
       \/ /\ Raise("MemoryError", TRUE)
          /\ UNCHANGED <<collateVars, batchDevice, remaining>>
    /\ UNCHANGED <<dataVars, modelDevice, inputDevice, epoch, checkpoints, ioVars,
                   envVars, pipVars>>

\* line 179, the end of an epoch: save_strategy="epoch" writes a checkpoint
EpochEnd ==
    /\ pc = "train"
    /\ epoch < num_train_epochs
    /\ remaining = {}
    /\ epoch' = epoch + 1
    /\ checkpoints' = checkpoints \cup {epoch + 1}
    /\ remaining' = 1..Len(dataset)
    /\ UNCHANGED <<pc, log, errVars, collateVars, dataVars, devVars, ioVars,
                   envVars, pipVars>>

\* line 179: train() returns after num_train_epochs epochs
TrainEnd ==
    /\ pc = "train"
    /\ epoch = num_train_epochs
    /\ Done("train")
    /\ UNCHANGED <<collateVars, dataVars, devVars, trainVars, ioVars, envVars,
                   pipVars>>

\* line 180
PrintComplete ==
    /\ pc = "print_complete"
    /\ stdout' = Append(stdout, "Training complete!")
    /\ Done("print_complete")
    /\ UNCHANGED <<collateVars, dataVars, devVars, trainVars, input_ids, output,
                   generated, saved, envVars, pipVars>>

\* line 183
Eval ==
    /\ pc = "eval"
    /\ Done("eval")
    /\ UNCHANGED <<collateVars, dataVars, devVars, trainVars, ioVars, envVars,
                   pipVars>>

\* line 185: the tokenizer builds input_ids on the CPU, .to("cpu") keeps them there
EncodePrompt ==
    /\ pc = "encode_prompt"
    /\ LET r == TokenizerCall(tokenizer, Prompt, max_length, FALSE, "none")
       IN  /\ input_ids' = r.val["input_ids"]
           /\ inputDevice' = "cpu"
    /\ Done("encode_prompt")
    /\ UNCHANGED <<collateVars, dataVars, modelDevice, batchDevice, trainVars,
                   stdout, output, generated, saved, envVars, pipVars>>

\* line 188: generate fails when the model and input_ids are on different devices
Generate ==
    /\ pc = "generate"
    /\ \/ IF modelDevice # inputDevice
          THEN Raise("RuntimeError", FALSE) /\ UNCHANGED output
          ELSE /\ \E n \in 0..(max_new_tokens - 1), ended \in BOOLEAN :
                     output' = GenerateOutput(input_ids.data[1],
                                              IF ended THEN n ELSE n + 1, ended)
               /\ Done("generate")
       \/ /\ Raise("MemoryError", TRUE)
          /\ UNCHANGED output
    /\ UNCHANGED <<collateVars, dataVars, devVars, trainVars, stdout, input_ids,
                   generated, saved, envVars, pipVars>>

\* line 189
DecodeStmt ==
    /\ pc = "decode"
    /\ generated' = Decode(output, TRUE)
    /\ Done("decode")
    /\ UNCHANGED <<collateVars, dataVars, devVars, trainVars, stdout, input_ids,
                   output, saved, envVars, pipVars>>

\* line 191
PrintPrompt ==
    /\ pc = "print_prompt"
    /\ stdout' = Append(stdout, "Prompt:")
    /\ Done("print_prompt")
    /\ UNCHANGED <<collateVars, dataVars, devVars, trainVars, input_ids, output,
                   generated, saved, envVars, pipVars>>

\* line 192
PrintGenerated ==
    /\ pc = "print_generated"
    /\ stdout' = Append(stdout, "Generated Text:")
    /\ Done("print_generated")
    /\ UNCHANGED <<collateVars, dataVars, devVars, trainVars, input_ids, output,
                   generated, saved, envVars, pipVars>>

\* line 195
SaveModel ==
    /\ pc = "save_model"
    /\ \/ /\ saved' = saved \cup {"model"}
          /\ Done("save_model")
       \/ /\ Raise("OSError", TRUE)
          /\ UNCHANGED saved
    /\ UNCHANGED <<collateVars, dataVars, devVars, trainVars, stdout, input_ids,
                   output, generated, envVars, pipVars>>

\* line 196
SaveTokenizer ==
    /\ pc = "save_tokenizer"
    /\ \/ /\ saved' = saved \cup {"tokenizer"}
          /\ Done("save_tokenizer")
       \/ /\ Raise("OSError", TRUE)
          /\ UNCHANGED saved
    /\ UNCHANGED <<collateVars, dataVars, devVars, trainVars, stdout, input_ids,
                   output, generated, envVars, pipVars>>

\* a new version of a package appears on the index
Publish ==
    /\ pc = "pip"
    /\ \E p \in Packages :
          /\ index[p] < MaxVersion
          /\ index' = [index EXCEPT ![p] = @ + 1]
    /\ UNCHANGED <<pc, installs, collateVars, dataVars, devVars, trainVars,
                   ioVars, envVars, errVars, log>>

\* lines 52-59: the pip install commands, run in a new environment
PipInstall ==
    /\ pc = "pip"
    /\ Len(installs) < MaxInstalls
    /\ installs' = Append(installs,
                      [p \in Packages |-> Resolve(Requirements[p], index[p])])
    /\ UNCHANGED <<pc, index, collateVars, dataVars, devVars, trainVars, ioVars,
                   envVars, errVars, log>>

Next ==
    \/ Collate
    \/ HarnessMap \/ HarnessSetFormat \/ HarnessRemoveColumns \/ HarnessCollate
    \/ LoadTokenizer \/ SetPadToken \/ FromListStmt \/ MapStmt \/ SetFormatStmt
    \/ RemoveColumnsStmt \/ TrainingArgsStmt \/ LoadModel \/ ModelToCpu
    \/ TrainerStmt \/ TrainStep \/ EpochEnd \/ TrainEnd \/ PrintComplete \/ Eval
    \/ EncodePrompt \/ Generate \/ DecodeStmt \/ PrintPrompt \/ PrintGenerated
    \/ SaveModel \/ SaveTokenizer
    \/ Publish \/ PipInstall

Spec == Init /\ [][Next]_vars

\* ------------------------------------------------------------------- claims
\* a call of custom_data_collator has been made: features is its argument and
\* result its outcome
Called == result.out # <<>>

N == Len(features)

FeatureKeys(i) == DOMAIN features[i].items

AllDicts == \A i \in 1..N : features[i].isdict

\* every feature has key k
HaveKey(k) == \A i \in 1..N : k \in FeatureKeys(i)

\* every feature has a tensor under k
TensorsAt(k) == HaveKey(k) /\ \A i \in 1..N : features[i].items[k].kind = "tensor"

\* the tensors under k do not all have one shape
ShapeClash(k) ==
    TensorsAt(k) /\ \E i \in 1..N : features[i].items[k].shape # features[1].items[k].shape

\* some feature holds something other than a tensor under k
NotTensorAt(k) ==
    HaveKey(k) /\ \E i \in 1..N : features[i].items[k].kind # "tensor"

\* v is the stack, in list order, of the values the features hold under k
IsStackOf(v, k) ==
    /\ v.kind = "tensor"
    /\ v.shape = <<N>> \o features[1].items[k].shape
    /\ \A i \in 1..N : v.data[i] = features[i].items[k].data

\* the features are dicts of one key set whose values can be stacked
Stackable ==
    /\ N > 0
    /\ AllDicts
    /\ \A i \in 1..N : FeatureKeys(i) = FeatureKeys(1)
    /\ \A k \in FeatureKeys(1) : TensorsAt(k) /\ ~ShapeClash(k)

ReturnsStacks ==
    /\ result.exc = "none"
    /\ \A i \in 1..N : DOMAIN result.batch = FeatureKeys(i)
    /\ \A k \in DOMAIN result.batch : IsStackOf(result.batch[k], k)

\* C1 as stated: for every non-empty list of feature dicts the collator returns
\* a batch with exactly the keys of the features, each value the stack, in list
\* order, of the features' values.
C1_AnyDictsAreStacked == (Called /\ N > 0 /\ AllDicts) => ReturnsStacks

\* C1, amended: for every non-empty list of feature dicts that all have the same
\* keys and hold, under each key, tensors of one shape, the collator returns a
\* batch with exactly those keys, each value the stack, in list order, of the
\* features' values (leading dimension the number of features).
C1_StackableAreStacked == (Called /\ Stackable) => ReturnsStacks

C1_Witness ==
    /\ pc = "collated"
    /\ N = 2
    /\ Stackable
    /\ FeatureKeys(1) = HarnessKeys
    /\ \A k \in HarnessKeys : features[1].items[k] # features[2].items[k]
    /\ ReturnsStacks

\* torch.stack raised for a shape mismatch (the features are never empty when
\* it is called, so this is its only RuntimeError)
ShapeMismatch == Called /\ "RuntimeError" \in result.stackexc

ErrorTexts == {<<"error_text", KeyOrder[i]>> : i \in 1..Len(KeyOrder)}

\* C2 as stated: on a shape mismatch the collator prints the framework's error
\* text for the key and then lets the error propagate, returning no batch.
C2_MismatchPrintedThenRaised ==
    ShapeMismatch =>
        /\ result.exc = "RuntimeError"
        /\ result.out[Len(result.out)] \in ErrorTexts

\* C2, amended: on a shape mismatch the collator lets torch.stack's error
\* (a RuntimeError) propagate to its caller and returns no batch; it prints no
\* error text for it: the last thing it printed is the shape of the key's
\* first element.
C2_MismatchRaisedUnprinted ==
    ShapeMismatch =>
        /\ result.exc = "RuntimeError"
        /\ result.out[Len(result.out)] = <<"shape_element0">>
        /\ \A i \in 1..Len(result.out) : result.out[i] # <<"end">>

C2_Witness ==
    /\ pc = "collated"
    /\ N = 2
    /\ FeatureKeys(1) = {"labels"}
    /\ ShapeClash("labels")
    /\ result.exc = "RuntimeError"
    /\ result.stackexc = {"RuntimeError"}

\* C3 as stated: the repository's code catches no failure: every exception of
\* torch.stack inside the collator reaches the collator's caller, and a run of
\* the script does not go on after an exception.
C3_NothingCaught ==
    /\ (Called /\ result.stackexc # {}) => result.exc \in result.stackexc
    /\ raised # "none" => (pc = "raised" /\ ~ENABLED Next)

\* C3, amended: the repository's code catches one failure only, a TypeError of
\* torch.stack inside the collator.  Every other exception of torch.stack
\* reaches the collator's caller, and a run of the script does not go on after
\* an exception.
C3_OnlyStackTypeErrorCaught ==
    /\ (Called /\ result.stackexc \ {"TypeError"} # {})
          => result.exc \in result.stackexc \ {"TypeError"}
    /\ raised # "none" => (pc = "raised" /\ ~ENABLED Next)

C3_Witness ==
    /\ pc = "collated"
    /\ result.stackexc = {"TypeError", "RuntimeError"}
    /\ result.exc = "RuntimeError"

\* C4 as stated: a run of the script that no fault of the environment ends
\* (no missing download, no lack of memory) raises nothing, and when it is
\* done it has completed three epochs of two batches, printed
\* "Training complete!" and printed a non-empty generated text.
C4_RunCompletes ==
    /\ raised # "none" => envFault
    /\ pc = "done" =>
          /\ epoch = num_train_epochs
          /\ checkpoints = 1..num_train_epochs
          /\ \E i \in 1..Len(stdout) : stdout[i] = "Training complete!"
          /\ stdout[Len(stdout)] = "Generated Text:"
          /\ generated # <<>>

\* C5: the model, every collated batch handed to it and the prompt's input_ids
\* are on the CPU whenever they exist, so the model never runs on inputs that
\* are on another device than itself.
C5_AllOnCpu ==
    /\ modelDevice \in {"none", "cpu"}
    /\ batchDevice \in {"none", "cpu"}
    /\ inputDevice \in {"none", "cpu"}
    /\ batchDevice # "none" => batchDevice = modelDevice
    /\ pc \in {"generate", "decode"} => inputDevice = modelDevice
    /\ raised # "RuntimeError"

C5_Witness ==
    /\ pc = "decode"
    /\ cudaAvailable
    /\ epoch = num_train_epochs
    /\ modelDevice = "cpu"
    /\ batchDevice = "cpu"
    /\ inputDevice = "cpu"

\* statement a completed, and completed before statement b did
Before(a, b) ==
    \A j \in 1..Len(log) : log[j] = b => \E i \in 1..(j - 1) : log[i] = a

\* C6 as stated: the pretrained model is loaded, then the dataset is built and
\* tokenized, then the trainer runs, then text is generated, then the model and
\* the tokenizer are saved; the saves happen only after training and generation
\* have completed.
C6_ModelLoadedFirst ==
    /\ Before("load_model", "from_list")
    /\ Before("from_list", "map")
    /\ Before("map", "train")
    /\ Before("train", "generate")
    /\ Before("generate", "save_model")
    /\ Before("save_model", "save_tokenizer")
    /\ saved # {} => (Before("train", "save_model") /\ Before("generate", "save_model"))

\* C6, amended: the pretrained tokenizer is loaded, then the dataset is built and
\* tokenized, then the pretrained model is loaded, then the trainer runs, then
\* text is generated, then the model and the tokenizer are saved; the saves
\* happen only after training and generation have completed without error.
C6_SourceOrder ==
    /\ Before("load_tokenizer", "from_list")
    /\ Before("from_list", "map")
    /\ Before("map", "load_model")
    /\ Before("load_model", "train")
    /\ Before("train", "generate")
    /\ Before("generate", "save_model")
    /\ Before("save_model", "save_tokenizer")
    /\ saved # {} =>
          /\ \E i \in 1..Len(log) : log[i] = "train"
          /\ \E i \in 1..Len(log) : log[i] = "generate"
          /\ epoch = num_train_epochs
          /\ output # <<>>
          /\ (raised # "none" => saved = {"model"})

C6_Witness ==
    /\ pc = "done"
    /\ saved = {"model", "tokenizer"}
    /\ Len(log) = Len(Program)

\* C7 as stated: every package the install commands install is installed at a
\* pinned version, so that two runs of the commands made at different times
\* install the same version of every package.
C7_InstallsRepeatable ==
    \A i, j \in 1..Len(installs) : \A p \in Packages :
        installs[i][p] = installs[j][p]

\* the dataset holds what tokenize_function returned for each row
Tokenized ==
    \/ pc \in {"h_set_format", "h_remove_columns", "h_collate", "h_collated"}
    \/ \E i \in 1..Len(log) : log[i] = "map"

TokenKeys == {"input_ids", "attention_mask", "labels"}

\* C8: whatever the token count of a text, tokenize_function gives input_ids,
\* attention_mask and labels of length 32 each, labels equal to input_ids at
\* every position; so the rows of the dataset have equal shapes under every key
\* and collating them hits no shape mismatch.
C8_FixedLength ==
    /\ Tokenized =>
          \A i \in 1..Len(dataset) :
              /\ TokenKeys \subseteq DOMAIN dataset[i]
              /\ \A k \in TokenKeys : Len(dataset[i][k].data) = 32
              /\ dataset[i]["labels"].data = dataset[i]["input_ids"].data
    /\ (Called /\ pc \notin {"collated"}) =>
          /\ result.exc = "none"
          /\ result.stackexc = {}
          /\ DOMAIN result.batch = TokenKeys
          /\ \A k \in TokenKeys : result.batch[k].shape = <<N, 32>>

C8_Witness ==
    /\ pc = "h_remove_columns"
    /\ Len(dataset) = 2
    /\ Len(dataset[1]["text"].data) > 32
    /\ Len(dataset[2]["text"].data) < 32
    /\ dataset[1]["input_ids"].data[32] = 32
    /\ dataset[2]["input_ids"].data[32] = eos_token
    /\ dataset[2]["labels"].data[32] = eos_token

\* the keys of features[0] whose values torch.stack stacks
StackedKeys == {k \in FeatureKeys(1) : TensorsAt(k) /\ ~ShapeClash(k)}

TypeErrorCaught == Called /\ "TypeError" \in result.stackexc

\* C9 as stated: when torch.stack raises a TypeError for a key, the collator
\* goes on and returns normally, and the batch holds exactly the keys of
\* features[0] whose stacking succeeded.
C9_TypeErrorThenReturns ==
    TypeErrorCaught =>
        /\ result.exc = "none"
        /\ DOMAIN result.batch = StackedKeys

\* a key of features[0] other than a TypeError's makes the collator raise
OtherFailure == \E k \in FeatureKeys(1) : ~HaveKey(k) \/ ShapeClash(k)

\* C9, amended: when torch.stack raises a TypeError for a key, the collator
\* does not raise it but goes on to the remaining keys; unless one of the keys
\* raises something else (a shape mismatch, a key that a feature lacks), it
\* returns normally, and the batch holds exactly the keys of features[0] whose
\* stacking succeeded, with no entry for the failed key.
C9_TypeErrorSkipsKey ==
    TypeErrorCaught =>
        /\ result.exc # "TypeError"
        /\ \A k \in FeatureKeys(1) : NotTensorAt(k) => k \notin DOMAIN result.batch
        /\ ~OtherFailure =>
              /\ result.exc = "none"
              /\ DOMAIN result.batch = StackedKeys
              /\ \A k \in StackedKeys : IsStackOf(result.batch[k], k)

C9_Witness ==
    /\ pc = "collated"
    /\ N = 2
    /\ FeatureKeys(1) = HarnessKeys
    /\ NotTensorAt("input_ids")
    /\ result.exc = "none"
    /\ DOMAIN result.batch = {"labels"}

\* a later feature is a dict that lacks a key of features[0]
MissingKey ==
    /\ N > 0
    /\ features[1].isdict
    /\ \E i \in 2..N : features[i].isdict /\ ~(FeatureKeys(1) \subseteq FeatureKeys(i))

\* C10 as stated: the batch has no key that features[0] lacks, and a key of
\* features[0] that a later feature lacks makes the collator raise KeyError.
C10_MissingKeyIsKeyError ==
    Called =>
        /\ (N > 0 /\ features[1].isdict) => DOMAIN result.batch \subseteq FeatureKeys(1)
        /\ MissingKey => result.exc = "KeyError"

\* C10, amended: the batch has no key that features[0] lacks, and a key of
\* features[0] that a later feature lacks makes the collator raise instead of
\* returning a batch: a KeyError, unless a shape mismatch at a key or a feature
\* that is no dict raises first.
C10_MissingKeyRaises ==
    Called =>
        /\ (N > 0 /\ features[1].isdict) => DOMAIN result.batch \subseteq FeatureKeys(1)
        /\ MissingKey =>
              /\ result.exc # "none"
              /\ (AllDicts /\ ~\E k \in FeatureKeys(1) : ShapeClash(k))
                    => result.exc = "KeyError"

C10_Witness ==
    /\ pc = "collated"
    /\ N = 2
    /\ AllDicts
    /\ FeatureKeys(1) = {"labels"}
    /\ FeatureKeys(2) = {"input_ids"}
    /\ result.exc = "KeyError"
    /\ DOMAIN result.batch = {}

====
